---- MODULE Spec2Model ----
(***************************************************************************)
(* Load-shifting optimisation (src/src/optimization.py).                   *)
(*                                                                         *)
(* prepare_and_run_optimization validates its arguments, calls             *)
(* run_optimization and checks the power balance of the result.            *)
(* run_optimization fills the unspecified (NaN) power cells with the       *)
(* default power and then, day by day, evaluates every hour pair, sorts    *)
(* the beneficial pairs by value, keeps the non-overlapping ones and       *)
(* applies the first shiftable_hours of them.                              *)
(* get_power_array, which lays the power table out on the timestamps of    *)
(* the price series, and main() of the Overview page (src/src/Overview.py),*)
(* which corrects the session's prices before the call, are modelled in    *)
(* specifications of their own (SpecPower, SpecOverview).                  *)
(*                                                                         *)
(* Numbers.  The program computes in floating point; the model computes    *)
(* exactly, in integers.  Prices and powers are integers, the two          *)
(* fractions (percent_flexible, shifted_load_percentage) are held in       *)
(* percent, and every cost and power of the result (base_cost, mem_cost,   *)
(* mem_power, mem_savings, mem_consumption, values) is held in units of    *)
(* 1/Unit, Unit = Scale * Scale, so that the two multiplications by a      *)
(* fraction are exact.  Rounding error is not modelled.                    *)
(***************************************************************************)
EXTENDS Integers, Sequences, FiniteSets, TLC

VARIABLES
    hours,                    \* columns of the matrices (24 in the program)
    spot_price,               \* argument: day -> hour -> price
    base_power,               \* argument, filled in place: day -> hour -> cell
    shiftable_hours,          \* argument (may be None in the orchestrator)
    immediate_rebound_str,    \* argument of the orchestrator
    hourly_base_power,        \* argument
    percent_flexible,         \* argument, in percent
    shifted_load_percentage,  \* argument, in percent
    pc,                       \* position in prepare_and_run_optimization
    d,                        \* loop variable of the day loop
    mask,                     \* np.isnan(base_power)
    base_cost,
    mem_power,
    mem_cost,
    mem_savings,              \* dict (d, i, j) -> (v1, v2)
    mem_consumption,          \* dict (d, i, j) -> (p1, p2)
    actions,                  \* day -> the day's list `actions`
    values,                   \* day -> the day's list `values`
    unique_sorted_actions,    \* day -> the day's list `unique_sorted_actions`
    applied,                  \* day -> the slice the apply loop iterated over
    error,                    \* message of the failed assertion, "" if none
    power,                    \* get_power_array: the table, weekday -> Hour -> power
    HourUTC,                  \* get_power_array: the timestamps of spot, in order
    first,                    \* the call of run_optimization made before this one
    elspotprices,             \* Overview: SpotPriceDKK of the data file, in order
    widgets,                  \* Overview: the values of the sidebar widgets
    session_state,            \* Overview: st.session_state.state (STATE)
    handed,                   \* Overview: SpotPriceDKK of the spot argument of the call
    executions                \* Overview: executions of main() in the session

vars == <<hours, spot_price, base_power, shiftable_hours, immediate_rebound_str,
          hourly_base_power, percent_flexible, shifted_load_percentage, pc, d,
          mask, base_cost, mem_power, mem_cost, mem_savings, mem_consumption,
          actions, values, unique_sorted_actions, applied, error, power, HourUTC,
          first, elspotprices, widgets, session_state, handed, executions>>

\* the variables of the Overview page
session == <<elspotprices, widgets, session_state, handed, executions>>

args == <<hours, spot_price, shiftable_hours, immediate_rebound_str,
          hourly_base_power, percent_flexible, shifted_load_percentage,
          power, HourUTC>>

(***************************************************************************)
(* Bounds of the model and the value sets the inputs are drawn from.       *)
(***************************************************************************)
NumHours == 4

MaxDays == 2

MaxShift == 2

HoursPerDay == 24

Scale == 100

Unit == Scale * Scale

Prices == {-1, 1, 2}

Percents == {0, 50, 100}

\* A cell of the power matrix: a number, or NaN (the user gave no power).
Cell(v) == [isnan |-> FALSE, val |-> v]

NaN == [isnan |-> TRUE, val |-> 0]

\* st.session_state.state before the first execution of main()
NoSession == [initialized |-> FALSE, spot_price_df |-> << >>]

\* the Overview page has not been opened
NoOverview ==
    /\ elspotprices = << >>
    /\ widgets = << >>
    /\ session_state = NoSession
    /\ handed = << >>
    /\ executions = 0

\* the value of `first` while run_optimization has been called only once
NoResult ==
    [kind |-> "none", spot_price |-> << >>, base_power |-> << >>,
     immediate_rebound_str |-> "", base_cost |-> << >>, mem_cost |-> << >>,
     mem_power |-> << >>, actions |-> << >>, values |-> << >>,
     unique_sorted_actions |-> << >>, applied |-> << >>,
     shiftable_hours |-> << >>]

\* shiftable_hours: an int, or None.
IntArg(n) == [none |-> FALSE, val |-> n]

NoneArg == [none |-> TRUE, val |-> 0]

ShiftArgs == {NoneArg} \cup {IntArg(n) : n \in 0..MaxShift}

Hours == 0..(hours - 1)

Days == DOMAIN spot_price

(***************************************************************************)
(* run_optimization, lines 66-82: the mask, the default fill and the       *)
(* baseline matrices.                                                      *)
(***************************************************************************)
\* mask = np.isnan(base_power)
IsNanMask(bp) == [dd \in DOMAIN bp |-> [h \in DOMAIN bp[dd] |-> bp[dd][h].isnan]]

\* base_power[mask] = hourly_base_power  (in place)
FillDefault(bp, m, hbp) ==
    [dd \in DOMAIN bp |->
        [h \in DOMAIN bp[dd] |-> IF m[dd][h] THEN Cell(hbp) ELSE bp[dd][h]]]

\* base_cost = spot_price * base_power
BaseCost(sp, bp) ==
    [dd \in DOMAIN bp |-> [h \in DOMAIN bp[dd] |-> sp[dd][h] * bp[dd][h].val * Unit]]

\* mem_power = base_power.copy()
PowerCopy(bp) == [dd \in DOMAIN bp |-> [h \in DOMAIN bp[dd] |-> bp[dd][h].val * Unit]]

\* (mutation: the whole power of the hour is flexible)
FlexPowerWhole(dd, h) == base_power[dd][h].val * Scale

\* _base_power = base_power * percent_flexible   (in units of 1/Scale)
FlexPower(dd, h) == base_power[dd][h].val * percent_flexible

immediate_rebound == (immediate_rebound_str = "Immediate")

(***************************************************************************)
(* Lines 91-143: the evaluation of one hour pair (i, j) of day dd.         *)
(***************************************************************************)
\* (mutation: the eligibility of hour j is not tested)
PairSkippedMaskOfIOnly(dd, i, j) ==
    \/ j <= i \/ mask[dd][i]
    \/ ((IF i - j < 0 THEN j - i ELSE i - j) > 1 /\ immediate_rebound)

\* (mutation: the distance test of line 98 is missing)
PairSkippedAnyDistance(dd, i, j) ==
    j <= i \/ mask[dd][i] \/ mask[dd][j]

\* the two `continue` tests of lines 95 and 98
PairSkipped(dd, i, j) ==
    \/ j <= i \/ mask[dd][i] \/ mask[dd][j]
    \/ ((IF i - j < 0 THEN j - i ELSE i - j) > 1 /\ immediate_rebound)

\* (mutation: the sign of the net cost is flipped)
up_down_cost_flipped(dd, i, j) ==
    spot_price[dd][i] * FlexPower(dd, i) * Scale
    - spot_price[dd][j] * FlexPower(dd, i) * shifted_load_percentage

\* (mutation: every day is priced with the prices of the first day)
up_down_cost_of_first_day(dd, i, j) ==
    (-spot_price[0][i]) * FlexPower(dd, i) * Scale
    + spot_price[0][j] * FlexPower(dd, i) * shifted_load_percentage

up_down_cost(dd, i, j) ==
    (-spot_price[dd][i]) * FlexPower(dd, i) * Scale
    + spot_price[dd][j] * FlexPower(dd, i) * shifted_load_percentage

\* (mutation: the value of lines 107-110, line 112 missing)
down_up_cost_computed(dd, i, j) ==
    spot_price[dd][i] * FlexPower(dd, j) * shifted_load_percentage
    - spot_price[dd][j] * FlexPower(dd, j) * Scale

\* line 112 overwrites the value computed in lines 107-110
down_up_cost(dd, i, j) == 0

\* The if / elif of lines 117-138: which branch stores an entry for (d, i, j).
Branch(dd, i, j) ==
    IF up_down_cost(dd, i, j) < down_up_cost(dd, i, j) /\ up_down_cost(dd, i, j) < 0
    THEN "up_down"
    ELSE IF down_up_cost(dd, i, j) < up_down_cost(dd, i, j) /\ down_up_cost(dd, i, j) < 0
         THEN "down_up"
         ELSE "none"

\* (mutation: the load arriving at hour j is priced with the price of hour i)
SavingsAtPriceOfI(dd, i, j) ==
    << (-spot_price[dd][i]) * FlexPower(dd, i) * Scale,
       spot_price[dd][i] * FlexPower(dd, i) * shifted_load_percentage >>

Savings(dd, i, j) ==
    IF Branch(dd, i, j) = "up_down"
    THEN << (-spot_price[dd][i]) * FlexPower(dd, i) * Scale,
            spot_price[dd][j] * FlexPower(dd, i) * shifted_load_percentage >>
    ELSE << spot_price[dd][i] * FlexPower(dd, j) * shifted_load_percentage,
            (-spot_price[dd][j]) * FlexPower(dd, j) * Scale >>

\* (mutation: the power of hour j is moved instead of the power of hour i)
ConsumptionOfWrongHour(dd, i, j) ==
    << (-FlexPower(dd, i)) * Scale, FlexPower(dd, j) * shifted_load_percentage >>

\* (mutation: only the delivered part of the load is removed at hour i)
ConsumptionLossless(dd, i, j) ==
    << (-FlexPower(dd, i)) * shifted_load_percentage,
       FlexPower(dd, i) * shifted_load_percentage >>

Consumption(dd, i, j) ==
    IF Branch(dd, i, j) = "up_down"
    THEN << (-FlexPower(dd, i)) * Scale, FlexPower(dd, i) * shifted_load_percentage >>
    ELSE << FlexPower(dd, j) * shifted_load_percentage, (-FlexPower(dd, j)) * Scale >>

Value(dd, i, j) ==
    IF Branch(dd, i, j) = "up_down" THEN up_down_cost(dd, i, j) ELSE down_up_cost(dd, i, j)

\* The pairs in the order the two loops of lines 91-92 visit them.
PairSeq == [k \in 1..(hours * hours) |-> << (k - 1) \div hours, (k - 1) % hours >>]

\* line 140: the pair has an entry in both dicts (the keys hold the day, and
\* the dicts are new in every run, so the entry is the one just stored)
Emitted(dd, p) == ~PairSkipped(dd, p[1], p[2]) /\ Branch(dd, p[1], p[2]) # "none"

\* the positions in PairSeq of the pairs the two loops append
EmittedAt(dd) == {k \in DOMAIN PairSeq : Emitted(dd, PairSeq[k])}

\* the list `actions` of day dd after the two loops: the emitted pairs in
\* the order they were visited
DayActions(dd) ==
    LET at == EmittedAt(dd)
    IN  [n \in 1..Cardinality(at) |->
            PairSeq[CHOOSE k \in at : Cardinality({m \in at : m <= k}) = n]]

\* the list `values` of day dd after the two loops, acts being `actions`
DayValues(dd, acts) == [k \in 1..Len(acts) |-> Value(dd, acts[k][1], acts[k][2])]

\* the entries the two loops store in mem_savings and mem_consumption
DayKeys(dd, acts) == {<< dd, acts[k][1], acts[k][2] >> : k \in 1..Len(acts)}

DaySavings(dd, acts) == [key \in DayKeys(dd, acts) |-> Savings(key[1], key[2], key[3])]

DayConsumption(dd, acts) ==
    [key \in DayKeys(dd, acts) |-> Consumption(key[1], key[2], key[3])]

(***************************************************************************)
(* Lines 145-154: sort the actions by value and drop the overlapping ones. *)
(*                                                                         *)
(* np.argsort (default kind) does not promise an order among equal values, *)
(* so the index order `ix` is any permutation that sorts `values`.  The    *)
(* loop appends an action iff it shares no hour with one appended before.  *)
(* An action that overlaps the list is dropped wherever it stands in `ix`, *)
(* so the next action appended is, among those not overlapping the list,   *)
(* one of least value: whichever of them `ix` puts first.                  *)
(* UniqueSorted is the set of lists the loop can end with, one per way of  *)
(* ordering the ties.                                                      *)
(***************************************************************************)
\* (mutation: only i is looked up in the list)
OverlapsOnI(p, uniq) ==
    \E k \in 1..Len(uniq) : p[1] = uniq[k][1] \/ p[1] = uniq[k][2]

\* line 151: i in a or j in a, for some a of the list
Overlaps(p, uniq) ==
    \E k \in 1..Len(uniq) :
        \/ p[1] = uniq[k][1] \/ p[1] = uniq[k][2]
        \/ p[2] = uniq[k][1] \/ p[2] = uniq[k][2]

RECURSIVE GreedyFrom(_, _, _, _)
GreedyFrom(acts, vals, rest, uniq) ==
    LET free == {k \in rest : ~Overlaps(acts[k], uniq)}
        best == {k \in free : \A m \in free : vals[k] <= vals[m]}
    IN  IF free = {} THEN {uniq}
        ELSE UNION {GreedyFrom(acts, vals, free \ {k}, Append(uniq, acts[k])) : k \in best}

UniqueSorted(acts, vals) == GreedyFrom(acts, vals, 1..Len(acts), << >>)

(***************************************************************************)
(* Lines 169-175: apply the first shiftable_hours actions of the list.     *)
(***************************************************************************)
\* (mutation: the whole list is applied)
TakeAll(s, n) == s

\* (mutation: the slice s[:n + 1])
TakeOneMore(s, n) == [k \in 1..(IF n + 1 < Len(s) THEN n + 1 ELSE Len(s)) |-> s[k]]

\* (mutation: the slice s[-n:], the last n entries, n >= 0)
TakeFromEnd(s, n) ==
    LET m == IF n < Len(s) THEN n ELSE Len(s)
    IN  [k \in 1..m |-> s[Len(s) - m + k]]

\* the slice s[:n] of Python, n of either sign
Take(s, n) ==
    LET m == IF n >= 0 THEN (IF n < Len(s) THEN n ELSE Len(s))
             ELSE (IF Len(s) + n > 0 THEN Len(s) + n ELSE 0)
    IN  [k \in 1..m |-> s[k]]

\* (mutation: the second term is added to hour 0)
AddPairAtFirstHour(r, p, delta) ==
    LET r1 == [r EXCEPT ![p[1]] = @ + delta[1]]
    IN  [r1 EXCEPT ![0] = @ + delta[2]]

\* one pass of the loop body for the pair p of day dd, on row r of a matrix
AddPair(r, p, delta) ==
    LET r1 == [r EXCEPT ![p[1]] = @ + delta[1]]
    IN  [r1 EXCEPT ![p[2]] = @ + delta[2]]

RECURSIVE ApplyLoop(_, _, _, _, _)
ApplyLoop(dd, sel, k, table, r) ==
    IF k > Len(sel) THEN r
    ELSE ApplyLoop(dd, sel, k + 1, table,
                   AddPair(r, sel[k], table[<< dd, sel[k][1], sel[k][2] >>]))

\* sum(x.reshape(-1))
RECURSIVE SumRow(_, _)
SumRow(r, n) == IF n = 0 THEN 0 ELSE r[n - 1] + SumRow(r, n - 1)

RECURSIVE SumDays(_, _)
SumDays(m, n) == IF n = 0 THEN 0 ELSE SumRow(m[n - 1], hours) + SumDays(m, n - 1)

SumAll(m) == SumDays(m, Cardinality(DOMAIN m))

Abs(x) == IF x < 0 THEN -x ELSE x

\* np.isclose(a, b, 1e-3): |a - b| <= atol + rtol * |b|, rtol = 1e-3; the
\* default atol = 1e-8 is below one unit of the model and is dropped
IsClose(a, b) == Abs(a - b) * 1000 <= Abs(b)

(***************************************************************************)
(* The inputs.  A run has either one day whose prices are drawn hour by    *)
(* hour from Prices, with no hour or one hour of unspecified power,        *)
(* under the fractions of CoreFractions; or one to MaxDays days            *)
(* drawn from a few row shapes, under every pair of fractions.             *)
(***************************************************************************)
BasePowers == {2}

RowIndex == 0..(NumHours - 1)

RichPowers ==
    { [h \in RowIndex |-> Cell(1)],
      [h \in RowIndex |-> IF h = 1 THEN NaN ELSE Cell(1)] }

RichRows == [price : [RowIndex -> Prices], power : RichPowers]

\* << percent_flexible, shifted_load_percentage >>
CoreFractions == { << 100, 100 >>, << 50, 50 >> }

FlatPrice == [h \in RowIndex |-> 1]

FallingPrice == [h \in RowIndex |-> 2 - h]

PatternRows ==
    { [price |-> FallingPrice, power |-> [h \in RowIndex |-> Cell(h + 1)]],
      [price |-> FallingPrice, power |-> [h \in RowIndex |-> IF h = 0 THEN NaN ELSE Cell(h)]],
      [price |-> FlatPrice,    power |-> [h \in RowIndex |-> NaN]] }

NotStarted ==
    /\ pc = "validate"
    /\ d = 0
    /\ mask = << >>
    /\ base_cost = << >>
    /\ mem_power = << >>
    /\ mem_cost = << >>
    /\ mem_savings = << >>
    /\ mem_consumption = << >>
    /\ actions = << >>
    /\ values = << >>
    /\ unique_sorted_actions = << >>
    /\ applied = << >>
    /\ error = ""
    /\ power = << >>
    /\ HourUTC = << >>
    /\ first = NoResult
    /\ NoOverview

Matrices(D, rows) ==
    /\ spot_price = [dd \in 0..(D - 1) |-> rows[dd].price]
    /\ base_power = [dd \in 0..(D - 1) |-> rows[dd].power]

Init ==
    /\ hours = NumHours
    /\ \/ /\ \E rows \in [{0} -> RichRows] : Matrices(1, rows)
          /\ \E f \in CoreFractions :
                percent_flexible = f[1] /\ shifted_load_percentage = f[2]
       \/ /\ \E D \in 1..MaxDays : \E rows \in [0..(D - 1) -> PatternRows] :
                Matrices(D, rows)
          /\ percent_flexible \in Percents
          /\ shifted_load_percentage \in Percents
    /\ shiftable_hours \in ShiftArgs
    /\ immediate_rebound_str \in {"Immediate", "Delayed"}
    /\ hourly_base_power \in BasePowers
    /\ NotStarted

(***************************************************************************)
(* prepare_and_run_optimization, lines 226-228: the argument checks.       *)
(* (The matrices of the model always hold whole days, so the check of      *)
(* line 227 passes.)                                                       *)
(***************************************************************************)
ArgsValid ==
    /\ ~shiftable_hours.none
    /\ percent_flexible >= 0 /\ percent_flexible <= Scale

ValidateFail ==
    /\ pc = "validate"
    /\ ~ArgsValid
    /\ pc' = "rejected"
    /\ error' = IF shiftable_hours.none THEN "Shiftable hours must be specified"
                ELSE "AssertionError"
    /\ UNCHANGED <<args, first, session, base_power, d, mask, base_cost, mem_power, mem_cost,
                   mem_savings, mem_consumption, actions, values,
                   unique_sorted_actions, applied>>

Validate ==
    /\ pc = "validate"
    /\ ArgsValid
    /\ pc' = "run"
    /\ UNCHANGED <<args, first, session, base_power, d, mask, base_cost, mem_power, mem_cost,
                   mem_savings, mem_consumption, actions, values,
                   unique_sorted_actions, applied, error>>

(***************************************************************************)
(* run_optimization, lines 66-82.                                          *)
(***************************************************************************)
Begin ==
    /\ pc = "run"
    /\ mask' = IsNanMask(base_power)
    /\ base_power' = FillDefault(base_power, IsNanMask(base_power), hourly_base_power)
    /\ base_cost' = BaseCost(spot_price, base_power')
    /\ mem_power' = PowerCopy(base_power')
    /\ mem_cost' = BaseCost(spot_price, base_power')
    /\ mem_savings' = << >>
    /\ mem_consumption' = << >>
    /\ actions' = [dd \in Days |-> << >>]
    /\ values' = [dd \in Days |-> << >>]
    /\ unique_sorted_actions' = [dd \in Days |-> << >>]
    /\ applied' = [dd \in Days |-> << >>]
    /\ d' = 0
    /\ pc' = "day"
    /\ UNCHANGED <<args, first, session, error>>

(***************************************************************************)
(* One pass of the day loop, lines 84-175.                                 *)
(***************************************************************************)
NextDay ==
    /\ d' = d + 1
    /\ pc' = IF d + 1 < Cardinality(Days) THEN "day" ELSE "returned"

Evaluated(acts, vals, u) ==
    /\ actions' = [actions EXCEPT ![d] = acts]
    /\ values' = [values EXCEPT ![d] = vals]
    /\ mem_savings' = mem_savings @@ DaySavings(d, acts)
    /\ mem_consumption' = mem_consumption @@ DayConsumption(d, acts)
    /\ unique_sorted_actions' = [unique_sorted_actions EXCEPT ![d] = u]

\* (mutation: equal values may come in another order on every evaluation)
TieFree(acts, vals, u) == TRUE

\* line 145: np.argsort is a function of the list `values`: a day whose
\* lists equal those of a day evaluated before, in this call or in the call
\* before it, gets the same list of non-overlapping actions
TieConsistent(acts, vals, u) ==
    /\ \A dd \in 0..(d - 1) :
          (actions[dd] = acts /\ values[dd] = vals) => u = unique_sorted_actions[dd]
    /\ \A dd \in DOMAIN first.actions :
          (first.actions[dd] = acts /\ first.values[dd] = vals)
              => u = first.unique_sorted_actions[dd]

\* lines 156-161: no action, `continue`
DayNoAction ==
    /\ pc = "day"
    /\ LET acts == DayActions(d)
           vals == DayValues(d, acts)
       IN  \E u \in UniqueSorted(acts, vals) :
             /\ Len(u) = 0
             /\ TieConsistent(acts, vals, u)
             /\ Evaluated(acts, vals, u)
    /\ NextDay
    /\ UNCHANGED <<args, first, session, base_power, mask, base_cost, mem_power, mem_cost, applied, error>>

\* lines 163-175
DayShift ==
    /\ pc = "day"
    /\ LET acts == DayActions(d)
           vals == DayValues(d, acts)
       IN  \E u \in UniqueSorted(acts, vals) :
             /\ Len(u) # 0
             /\ TieConsistent(acts, vals, u)
             /\ Evaluated(acts, vals, u)
             /\ LET sel == Take(u, shiftable_hours.val)
                IN  /\ applied' = [applied EXCEPT ![d] = sel]
                    /\ mem_cost' = [mem_cost EXCEPT
                                      ![d] = ApplyLoop(d, sel, 1, mem_savings', @)]
                    /\ mem_power' = [mem_power EXCEPT
                                      ![d] = ApplyLoop(d, sel, 1, mem_consumption', @)]
    /\ NextDay
    /\ UNCHANGED <<args, first, session, base_power, mask, base_cost, error>>

(***************************************************************************)
(* prepare_and_run_optimization, lines 250-263: the power balance.         *)
(* power_array is the array run_optimization filled (line 251 finds no     *)
(* NaN left in it).                                                        *)
(***************************************************************************)
BalanceHolds ==
    IF shifted_load_percentage = Scale
    THEN IsClose(SumAll(mem_power), SumAll(PowerCopy(base_power)))
    ELSE SumAll(mem_power) < SumAll(PowerCopy(base_power))

PostCheckFail ==
    /\ pc = "returned"
    /\ ~BalanceHolds
    /\ pc' = "failed"
    /\ error' = "There is a bug in the optimization. Please report it."
    /\ UNCHANGED <<args, first, session, base_power, d, mask, base_cost, mem_power, mem_cost,
                   mem_savings, mem_consumption, actions, values,
                   unique_sorted_actions, applied>>

PostCheck ==
    /\ pc = "returned"
    /\ BalanceHolds
    /\ pc' = "done"
    /\ UNCHANGED <<args, first, session, base_power, d, mask, base_cost, mem_power, mem_cost,
                   mem_savings, mem_consumption, actions, values,
                   unique_sorted_actions, applied, error>>

Next ==
    \/ ValidateFail
    \/ Validate
    \/ Begin
    \/ DayNoAction
    \/ DayShift
    \/ PostCheckFail
    \/ PostCheck

Spec == Init /\ [][Next]_vars

(***************************************************************************)
(* Properties of the result of run_optimization.                           *)
(***************************************************************************)
\* run_optimization has returned its OptimizationResult
Returned == pc \in {"returned", "done", "failed"}

\* the baseline power of an hour, after the default fill
Baseline(dd, h) == base_power[dd][h].val * Unit

BaselineRow(dd) == [h \in Hours |-> Baseline(dd, h)]

\* the hours of day dd whose power differs from the baseline
Changed(dd) == {h \in Hours : mem_power[dd][h] # Baseline(dd, h)}

\* the hours of the applied actions of day dd
Touched(dd) ==
    UNION {{applied[dd][k][1], applied[dd][k][2]} : k \in 1..Len(applied[dd])}

Dist(i, j) == IF i < j THEN j - i ELSE i - j

\* C1. Budget invariant: after a run with shiftable_hours > 0, on every day
\* the number of hours whose power differs from the baseline (after the
\* default fill) is at most 2 * shiftable_hours.
C1_Budget ==
    (Returned /\ shiftable_hours.val > 0) =>
        \A dd \in Days : Cardinality(Changed(dd)) <= 2 * shiftable_hours.val

\* a day with more non-overlapping actions than the budget, cut to the budget
C1_Witness ==
    /\ Returned
    /\ shiftable_hours.val = 1
    /\ \E dd \in Days :
         /\ Len(unique_sorted_actions[dd]) = 2
         /\ Cardinality(Changed(dd)) = 2

\* C2. On every day the applied actions are mutually exclusive: no two of
\* them share an hour, and there are at most shiftable_hours of them, so
\* every hour is modified by at most one action.
C2_Exclusive ==
    Returned =>
        \A dd \in Days :
            /\ Len(applied[dd]) <= shiftable_hours.val
            /\ \A k \in 1..Len(applied[dd]) : applied[dd][k][1] # applied[dd][k][2]
            /\ \A k, m \in 1..Len(applied[dd]) :
                 k # m => {applied[dd][k][1], applied[dd][k][2]}
                          \cap {applied[dd][m][1], applied[dd][m][2]} = {}
            /\ \A h \in Hours :
                 Cardinality({k \in 1..Len(applied[dd]) :
                                h \in {applied[dd][k][1], applied[dd][k][2]}}) <= 1

\* two actions applied on one day, with overlapping candidates dropped
C2_Witness ==
    /\ Returned
    /\ \E dd \in Days :
         /\ Len(applied[dd]) = 2
         /\ Len(actions[dd]) > Len(unique_sorted_actions[dd])

\* C3. Conservation: with shifted_load_percentage = 1 the power of a day
\* summed over its hours equals the summed baseline power, whatever
\* actions were applied and whatever percent_flexible is.
C3_Conservation ==
    (Returned /\ shifted_load_percentage = Scale) =>
        \A dd \in Days : SumRow(mem_power[dd], hours) = SumRow(BaselineRow(dd), hours)

\* full rebound, half of the load flexible, and power was moved
C3_Witness ==
    /\ Returned
    /\ shifted_load_percentage = Scale
    /\ percent_flexible = 50
    /\ \E dd \in Days : Changed(dd) # {}

C5_NeverWorse ==
    Returned =>
        \A dd \in Days : SumRow(mem_cost[dd], hours) <= SumRow(base_cost[dd], hours)

\* a day with a negative price at an hour of an applied action, and a saving
C5_Witness ==
    /\ Returned
    /\ \E dd \in Days :
         /\ \E h \in Touched(dd) : spot_price[dd][h] < 0
         /\ SumRow(mem_cost[dd], hours) < SumRow(base_cost[dd], hours)

\* C6. Mask respect: an hour whose input power is NaN is in no applied
\* action; there mem_power is the default hourly base power and mem_cost is
\* price * default hourly base power.
C6_MaskRespect ==
    Returned =>
        \A dd \in Days : \A h \in Hours :
            mask[dd][h] =>
                /\ h \notin Touched(dd)
                /\ mem_power[dd][h] = hourly_base_power * Unit
                /\ mem_cost[dd][h] = spot_price[dd][h] * hourly_base_power * Unit

\* a day with an unspecified hour on which actions were applied, the
\* unspecified hour being one that a shift out of it would have paid
C6_Witness ==
    /\ Returned
    /\ \E dd \in Days : \E h \in Hours :
         /\ mask[dd][h]
         /\ applied[dd] # << >>
         /\ \E j \in Hours : j > h /\ ~mask[dd][j] /\ up_down_cost(dd, h, j) < 0

\* C7. Adjacency: with immediate_rebound every applied pair (i, j) has
\* |i - j| <= 1, so power differs from the baseline only at hours of an
\* applied action whose other hour is a neighbour; without it every
\* eligible pair i < j of negative net cost is a candidate, at any distance.
C7_Adjacency ==
    Returned =>
        \A dd \in Days :
            /\ immediate_rebound =>
                 /\ \A k \in 1..Len(applied[dd]) :
                      Dist(applied[dd][k][1], applied[dd][k][2]) <= 1
                 /\ \A h \in Changed(dd) :
                      \E k \in 1..Len(applied[dd]) :
                          /\ h \in {applied[dd][k][1], applied[dd][k][2]}
                          /\ {applied[dd][k][1], applied[dd][k][2]} \subseteq {h - 1, h, h + 1}
            /\ ~immediate_rebound =>
                 \A i, j \in Hours :
                     (i < j /\ ~mask[dd][i] /\ ~mask[dd][j] /\ up_down_cost(dd, i, j) < 0)
                        => \E k \in 1..Len(actions[dd]) : actions[dd][k] = << i, j >>

\* immediate rebound: an adjacent pair is applied although a pair further
\* apart has a lower net cost
C7_Witness ==
    /\ Returned
    /\ immediate_rebound
    /\ \E dd \in Days :
         /\ applied[dd] # << >>
         /\ \E i, j \in Hours :
              /\ j > i + 1 /\ ~mask[dd][i] /\ ~mask[dd][j]
              /\ \A k \in 1..Len(values[dd]) : up_down_cost(dd, i, j) < values[dd][k]

\* C8. No-op: if shiftable_hours = 0 or every hour of the input is
\* ineligible, mem_cost equals base_cost and mem_power equals the baseline
\* power in every cell.
C8_NoOp ==
    (Returned /\ (shiftable_hours.val = 0
                  \/ \A dd \in Days : \A h \in Hours : mask[dd][h])) =>
        /\ mem_cost = base_cost
        /\ mem_power = [dd \in Days |-> BaselineRow(dd)]

\* a budget of zero on a day that has actions to apply
C8_Witness ==
    /\ Returned
    /\ shiftable_hours.val = 0
    /\ \E dd \in Days : unique_sorted_actions[dd] # << >>

(***************************************************************************)
(* The concrete scenario of the specification, on the 24 hours of a day:   *)
(* price 10 in every hour but price[8] = 100 and price[3] = 1, power 1 in  *)
(* every hour.  The scenario itself has shiftable_hours = 1, delayed       *)
(* rebound and both fractions 1; the specification also runs the same day  *)
(* under the other budgets, under immediate rebound and with no flexible   *)
(* load.                                                                   *)
(***************************************************************************)
ScenarioPrice ==
    [h \in 0..(HoursPerDay - 1) |-> IF h = 8 THEN 100 ELSE IF h = 3 THEN 1 ELSE 10]

ScenarioPower == [h \in 0..(HoursPerDay - 1) |-> Cell(1)]

ScenarioFractions == { << 100, 100 >>, << 0, 50 >> }

InitScenario ==
    /\ hours = HoursPerDay
    /\ spot_price = [dd \in {0} |-> ScenarioPrice]
    /\ base_power = [dd \in {0} |-> ScenarioPower]
    /\ shiftable_hours \in ShiftArgs
    /\ immediate_rebound_str \in {"Immediate", "Delayed"}
    /\ hourly_base_power \in BasePowers
    /\ \E f \in ScenarioFractions :
          percent_flexible = f[1] /\ shifted_load_percentage = f[2]
    /\ NotStarted

SpecScenario == InitScenario /\ [][Next]_vars

InScenario ==
    /\ spot_price = [dd \in {0} |-> ScenarioPrice]
    /\ shiftable_hours = IntArg(1)
    /\ immediate_rebound_str = "Delayed"
    /\ percent_flexible = Scale
    /\ shifted_load_percentage = Scale

C10_RejectsNonPositiveHours ==
    (shiftable_hours.none \/ shiftable_hours.val <= 0) => pc \in {"validate", "rejected"}

(***************************************************************************)
(* Calls whose two fractions are drawn from a wider set than [0, 1]: one   *)
(* day of each pattern, every budget and both rebound modes.               *)
(***************************************************************************)
WidePercents == {-50, 0, 50, 100, 150}

InitArgs ==
    /\ hours = NumHours
    /\ \E rows \in [{0} -> PatternRows] : Matrices(1, rows)
    /\ percent_flexible \in WidePercents
    /\ shifted_load_percentage \in WidePercents
    /\ shiftable_hours \in ShiftArgs
    /\ immediate_rebound_str \in {"Immediate", "Delayed"}
    /\ hourly_base_power \in BasePowers
    /\ NotStarted

SpecArgs == InitArgs /\ [][Next]_vars

\* C11. A call whose percent_flexible or whose shifted_load_percentage lies
\* outside [0, 1] is rejected by the argument checks: it never gets past
\* them to the per-day optimisation.
C11_RejectsFractionsOutOfRange ==
    (\/ percent_flexible < 0 \/ percent_flexible > Scale
     \/ shifted_load_percentage < 0 \/ shifted_load_percentage > Scale)
        => pc \in {"validate", "rejected"}

(***************************************************************************)
(* Days on which no action is accepted (lines 156-161).                    *)
(***************************************************************************)
\* the days of the finished run that accepted no action
ZeroActionDays == {dd \in Days : unique_sorted_actions[dd] = << >>}

\* C12. A day with zero accepted actions is not fatal: once the valid call
\* (positive budget, both fractions in [0, 1]) has gone through every day,
\* the rows of such a day equal the baseline, every day has been processed,
\* and the call does not fail in its post-condition check.
C12_ZeroActionDayCompletes ==
    (Returned /\ shiftable_hours.val > 0 /\ ZeroActionDays # {}) =>
        /\ \A dd \in ZeroActionDays :
              mem_cost[dd] = base_cost[dd] /\ mem_power[dd] = BaselineRow(dd)
        /\ d = Cardinality(Days)
        /\ pc # "failed"

(***************************************************************************)
(* get_power_array (lines 180-210): the power table laid out on the        *)
(* timestamps of the price series.  Weekdays are numbered as               *)
(* datetime.weekday() numbers them, 0 = "Mon"; the table is the dict of    *)
(* line 188, weekday -> Hour -> power, with Hour counted from 1.  The      *)
(* result is the power matrix, held in base_power.                         *)
(***************************************************************************)
NumWeekdays == 7

Weekdays == 0..(NumWeekdays - 1)

Mon == 0

\* the power the tables of the model hold for a weekday and an Hour
Entry(wd, h) == 10 * (wd + 1) + h

\* lines 187-188: a table with the weekday columns cols and the Hours rws
PowerTable(cols, rws) == [wd \in cols |-> [h \in rws |-> Entry(wd, h)]]

\* hourly timestamps of D whole days, the first day being weekday w0
Timestamps(D, w0) ==
    [k \in 1..(D * hours) |->
        [weekday |-> (w0 + (k - 1) \div hours) % NumWeekdays,
         hour    |-> (k - 1) % hours]]

\* line 189 mutated: the series is never taken for a single day
SingleDayNever == FALSE

\* line 189: spot.shape[0] <= 24
SingleDay == Len(HourUTC) <= hours

\* lines 190-193: the lookup of "Mon" that the single-day branch makes
MonMissing == SingleDay /\ Mon \notin DOMAIN power

\* lines 188-193: power_dict after the single-day branch
power_dict ==
    IF SingleDay THEN [wd \in Weekdays |-> power[Mon]] ELSE power

\* lines 195-206: get_power(x)
get_power(x) ==
    IF /\ x.weekday \in DOMAIN power_dict
       /\ (x.hour + 1) \in DOMAIN power_dict[x.weekday]
    THEN Cell(power_dict[x.weekday][x.hour + 1])
    ELSE NaN

\* line 208: spot.HourUTC.apply(get_power).values.reshape(-1, 24)
power_array ==
    [dd \in 0..((Len(HourUTC) \div hours) - 1) |->
        [h \in 0..(hours - 1) |-> get_power(HourUTC[dd * hours + h + 1])]]

\* the tables and the series the calls are made with
InitPower ==
    /\ hours = NumHours
    /\ \E cols \in SUBSET Weekdays : \E rws \in SUBSET (1..hours) :
          power = PowerTable(cols, rws)
    /\ \E D \in 1..MaxDays : \E w0 \in Weekdays :
          /\ HourUTC = Timestamps(D, w0)
          /\ spot_price = [dd \in 0..(D - 1) |-> [h \in 0..(hours - 1) |-> 1]]
    /\ base_power = << >>
    /\ shiftable_hours = IntArg(1)
    /\ immediate_rebound_str = "Delayed"
    /\ hourly_base_power \in BasePowers
    /\ percent_flexible = Scale
    /\ shifted_load_percentage = Scale
    /\ pc = "get_power_array"
    /\ d = 0
    /\ mask = << >>
    /\ base_cost = << >>
    /\ mem_power = << >>
    /\ mem_cost = << >>
    /\ mem_savings = << >>
    /\ mem_consumption = << >>
    /\ actions = << >>
    /\ values = << >>
    /\ unique_sorted_actions = << >>
    /\ applied = << >>
    /\ error = ""
    /\ first = NoResult
    /\ NoOverview

\* line 193 raises: the table has no "Mon" column
GetPowerArrayRaise ==
    /\ pc = "get_power_array"
    /\ MonMissing
    /\ pc' = "raised"
    /\ error' = "KeyError: 'Mon'"
    /\ UNCHANGED <<args, first, session, base_power, d, mask, base_cost, mem_power, mem_cost,
                   mem_savings, mem_consumption, actions, values,
                   unique_sorted_actions, applied>>

GetPowerArray ==
    /\ pc = "get_power_array"
    /\ ~MonMissing
    /\ base_power' = power_array
    /\ pc' = "power_array"
    /\ UNCHANGED <<args, first, session, d, mask, base_cost, mem_power, mem_cost,
                   mem_savings, mem_consumption, actions, values,
                   unique_sorted_actions, applied, error>>

NextPower ==
    \/ GetPowerArrayRaise
    \/ GetPowerArray

SpecPower == InitPower /\ [][NextPower]_vars

\* the table's entry for a weekday and an Hour, NaN if it has none
TableEntry(wd, h) ==
    IF wd \in DOMAIN power /\ h \in DOMAIN power[wd] THEN Cell(power[wd][h]) ELSE NaN

\* the timestamp of a cell of the matrix
Stamp(dd, h) == HourUTC[dd * hours + h + 1]

\* C13. get_power_array never fails because the table lacks an entry, and
\* the matrix it returns holds, for every timestamp, the table's entry for
\* the timestamp's weekday and hour-of-day + 1, or NaN when the table has
\* no such entry (for a series of one day the column is the one C14 names).
C13_EntryOrSentinel ==
    /\ pc # "raised"
    /\ (pc = "power_array" /\ Len(HourUTC) > hours) =>
          \A dd \in DOMAIN base_power : \A h \in 0..(hours - 1) :
              base_power[dd][h] = TableEntry(Stamp(dd, h).weekday, h + 1)

\* C14. When get_power_array returns: for a series of exactly one day every
\* hour holds the entry of the table's Monday column, whatever the weekday
\* of the timestamps; for a longer series every hour holds the entry of its
\* own weekday's column.
C14_MondayForSingleDay ==
    pc = "power_array" =>
        \A dd \in DOMAIN base_power : \A h \in 0..(hours - 1) :
            base_power[dd][h] =
                IF Len(HourUTC) = hours
                THEN TableEntry(Mon, h + 1)
                ELSE TableEntry(Stamp(dd, h).weekday, h + 1)

\* a single day that is not a Monday got Monday's powers although the table
\* has a column of its own for that weekday
C14_Witness ==
    /\ pc = "power_array"
    /\ Len(HourUTC) = hours
    /\ HourUTC[1].weekday = 2
    /\ DOMAIN power = Weekdays
    /\ base_power[0][0] = Cell(Entry(Mon, 1))
    /\ base_power[0][0] # TableEntry(2, 1)

(***************************************************************************)
(* Two calls of run_optimization in succession.  The caller keeps the      *)
(* OptimizationResult of the first call in `first` and calls again: with   *)
(* the very same arrays, with the other rebound mode, or with the days of  *)
(* the matrices changed.                                                   *)
(***************************************************************************)
\* the power array as the caller built it, before the fill of line 67
OriginalPower ==
    [dd \in Days |-> [h \in Hours |-> IF mask[dd][h] THEN NaN ELSE base_power[dd][h]]]

\* the arguments and the OptimizationResult of the call that has returned
Result(kind) ==
    [kind |-> kind, spot_price |-> spot_price, base_power |-> OriginalPower,
     immediate_rebound_str |-> immediate_rebound_str, base_cost |-> base_cost,
     mem_cost |-> mem_cost, mem_power |-> mem_power, actions |-> actions,
     values |-> values, unique_sorted_actions |-> unique_sorted_actions,
     applied |-> applied, shiftable_hours |-> shiftable_hours]

CallAgain(kind) ==
    /\ pc = "returned"
    /\ first = NoResult
    /\ first' = Result(kind)
    /\ pc' = "run"
    /\ UNCHANGED <<session, hours, hourly_base_power,
                   percent_flexible, shifted_load_percentage, power, HourUTC, d,
                   mask, base_cost,
                   mem_power, mem_cost, mem_savings, mem_consumption, actions,
                   values, unique_sorted_actions, applied, error>>

\* the same arrays again: base_power is the array line 67 has filled
RunAgainSameArray ==
    /\ CallAgain("same_array")
    /\ UNCHANGED <<spot_price, base_power, immediate_rebound_str, shiftable_hours>>

\* a fresh copy of the power array, the other rebound mode
RunAgainOtherRebound ==
    /\ CallAgain("other_rebound")
    /\ immediate_rebound_str' =
          IF immediate_rebound_str = "Immediate" THEN "Delayed" ELSE "Immediate"
    /\ base_power' = OriginalPower
    /\ UNCHANGED <<spot_price, shiftable_hours>>

\* a price row that falls, rises and falls again
ZigZagPrice ==
    [h \in RowIndex |-> IF h = 0 THEN 3 ELSE IF h = 1 THEN 1 ELSE IF h = 2 THEN 2
                        ELSE IF h = 3 THEN 0 ELSE 3]

TwiceRows ==
    PatternRows \cup {[price |-> ZigZagPrice, power |-> [h \in RowIndex |-> Cell(1)]]}

\* fresh arrays with one day replaced, or with the days in reverse order
RunAgainOtherDays ==
    /\ CallAgain("other_days")
    /\ Cardinality(Days) > 1
    /\ \/ \E k \in Days : \E row \in PatternRows :
             /\ row.price # spot_price[k] \/ row.power # OriginalPower[k]
             /\ spot_price' = [spot_price EXCEPT ![k] = row.price]
             /\ base_power' = [OriginalPower EXCEPT ![k] = row.power]
       \/ LET last == Cardinality(Days) - 1
          IN  /\ spot_price' = [dd \in Days |-> spot_price[last - dd]]
              /\ base_power' = [dd \in Days |-> OriginalPower[last - dd]]
    /\ UNCHANGED <<immediate_rebound_str, shiftable_hours>>

\* fresh arrays, the budget one hour larger
RunAgainLargerBudget ==
    /\ CallAgain("larger_budget")
    /\ shiftable_hours.val < MaxShift
    /\ shiftable_hours' = IntArg(shiftable_hours.val + 1)
    /\ base_power' = OriginalPower
    /\ UNCHANGED <<spot_price, immediate_rebound_str>>

InitTwice ==
    /\ hours = NumHours
    /\ \/ \E rows \in [{0} -> TwiceRows] : Matrices(1, rows)
       \/ \E D \in 2..MaxDays : \E rows \in [0..(D - 1) -> PatternRows] :
             Matrices(D, rows)
    /\ \E f \in CoreFractions :
          percent_flexible = f[1] /\ shifted_load_percentage = f[2]
    /\ shiftable_hours \in ShiftArgs
    /\ immediate_rebound_str \in {"Immediate", "Delayed"}
    /\ hourly_base_power \in BasePowers
    /\ NotStarted

NextTwice ==
    \/ Next
    \/ RunAgainSameArray
    \/ RunAgainOtherRebound
    \/ RunAgainOtherDays
    \/ RunAgainLargerBudget

SpecTwice == InitTwice /\ [][NextTwice]_vars

\* C15. run_optimization called twice in succession with the same price
\* matrix, the same power array (reused, it held NaN cells) and the same
\* parameters returns equal base_cost, mem_cost and mem_power both times.
C15_SameResultOnReusedArray ==
    (first.kind = "same_array" /\ Returned) =>
        /\ base_cost = first.base_cost
        /\ mem_cost = first.mem_cost
        /\ mem_power = first.mem_power

\* C16. For the same prices, powers, fractions and a budget of at least one
\* hour, the summed mem_cost of the call with delayed rebound is less than
\* or equal to the summed mem_cost of the call with immediate rebound.
C16_DelayedAtLeastAsGood ==
    (first.kind = "other_rebound" /\ Returned /\ shiftable_hours.val >= 1) =>
        IF immediate_rebound_str = "Delayed"
        THEN SumAll(mem_cost) <= SumAll(first.mem_cost)
        ELSE SumAll(first.mem_cost) <= SumAll(mem_cost)

\* day d1 of the first call and day d2 of this call have the same price row
\* and the same power row
SameDay(d1, d2) ==
    first.spot_price[d1] = spot_price[d2] /\ first.base_power[d1] = OriginalPower[d2]

\* C20. Row d of mem_cost and mem_power depends only on row d of the price
\* and power matrices and on the scalar parameters: after another day has
\* been replaced, or the days have been put in another order, a day with
\* the same price and power rows has the same mem_cost and mem_power rows.
C20_DaysIndependent ==
    (first.kind = "other_days" /\ Returned) =>
        \A d1 \in DOMAIN first.spot_price : \A d2 \in Days :
            SameDay(d1, d2) =>
                /\ mem_cost[d2] = first.mem_cost[d1]
                /\ mem_power[d2] = first.mem_power[d1]

\* a day that shifted load kept its rows while another day was replaced and
\* got other rows
C20_Witness ==
    /\ first.kind = "other_days"
    /\ Returned
    /\ \E d2 \in Days : \E k \in Days :
          /\ SameDay(d2, d2)
          /\ applied[d2] # << >>
          /\ mem_power[d2] = first.mem_power[d2]
          /\ ~SameDay(k, k)
          /\ mem_power[k] # first.mem_power[k]

(***************************************************************************)
(* The Overview page (src/src/Overview.py).  Streamlit executes main()     *)
(* once when the page is opened and once more after every interaction;     *)
(* st.session_state.state lives as long as the session.  Prices are exact  *)
(* fractions << numerator, denominator >> in lowest terms, the denominator *)
(* positive, where the program computes in floating point.                 *)
(***************************************************************************)
MaxExecutions == 2

RECURSIVE GCD(_, _)

GCD(a, b) == IF b = 0 THEN a ELSE GCD(b, a % b)

Norm(q) ==
    LET g == GCD(Abs(q[1]), q[2])
    IN  << q[1] \div g, q[2] \div g >>

RatAdd(p, q) == Norm(<< p[1] * q[2] + q[1] * p[2], p[2] * q[2] >>)

RatMul(p, q) == Norm(<< p[1] * q[1], p[2] * q[2] >>)

\* lines 98-103: the options of the three select boxes
moms_options == {0, 25}

elafgift_options == { << 0, 1 >>, << 76, 100 >> }

exposure_options == {50, 100}

\* lines 24-30, on one price of the column
correct_spot_prices(price, moms, exposure, elafgift) ==
    RatMul(RatMul(RatAdd(price, elafgift), Norm(<< exposure, 100 >>)),
           Norm(<< 100 + moms, 100 >>))

\* Spot_Prices.py lines 48-59: the prices of the data file, copied
initialize_spot_price_data == [k \in DOMAIN elspotprices |-> << elspotprices[k], 1 >>]

InitOverview ==
    /\ elspotprices \in [1..2 -> Prices]
    /\ \E m \in moms_options : \E e \in elafgift_options : \E x \in exposure_options :
          widgets = [moms |-> m, elafgift |-> e, exposure |-> x]
    /\ session_state = NoSession
    /\ handed = << >>
    /\ executions = 0
    /\ hours = NumHours
    /\ spot_price = << >>
    /\ base_power = << >>
    /\ shiftable_hours = IntArg(1)
    /\ immediate_rebound_str = "Delayed"
    /\ hourly_base_power \in BasePowers
    /\ percent_flexible = Scale
    /\ shifted_load_percentage = Scale
    /\ pc = "main"
    /\ d = 0
    /\ mask = << >>
    /\ base_cost = << >>
    /\ mem_power = << >>
    /\ mem_cost = << >>
    /\ mem_savings = << >>
    /\ mem_consumption = << >>
    /\ actions = << >>
    /\ values = << >>
    /\ unique_sorted_actions = << >>
    /\ applied = << >>
    /\ error = ""
    /\ power = << >>
    /\ HourUTC = << >>
    /\ first = NoResult

\* one execution of main(), lines 41-124: the session's prices are loaded
\* on the first execution only, corrected in place on every execution and
\* handed to prepare_and_run_optimization, whose call (six arguments for
\* seven parameters) raises TypeError
main ==
    /\ pc = "main"
    /\ executions < MaxExecutions
    /\ LET spot_price_df == IF session_state.initialized THEN session_state.spot_price_df
                            ELSE initialize_spot_price_data
           corrected == [k \in DOMAIN spot_price_df |->
                            correct_spot_prices(spot_price_df[k], widgets.moms,
                                                widgets.exposure, widgets.elafgift)]
       IN  /\ session_state' = [initialized |-> TRUE, spot_price_df |-> corrected]
           /\ handed' = corrected
    /\ executions' = executions + 1
    /\ error' = "TypeError"
    /\ UNCHANGED <<args, first, elspotprices, widgets, pc, base_power, d, mask,
                   base_cost, mem_power, mem_cost, mem_savings, mem_consumption,
                   actions, values, unique_sorted_actions, applied>>

NextOverview == main

SpecOverview == InitOverview /\ [][NextOverview]_vars

\* C17. After any number of executions of main() in one session with
\* unchanged settings, every price handed to the optimisation equals
\* (loaded price + tax) * exposure / 100 * (1 + VAT / 100); with exposure 50,
\* no tax and no VAT it is exactly half the loaded price.
C17_PriceCorrectedOnce ==
    executions >= 1 =>
        \A k \in DOMAIN elspotprices :
            /\ handed[k] =
                  Norm(<< (elspotprices[k] * widgets.elafgift[2] + widgets.elafgift[1])
                             * widgets.exposure * (100 + widgets.moms),
                          widgets.elafgift[2] * 100 * 100 >>)
            /\ (widgets.exposure = 50 /\ widgets.elafgift[1] = 0 /\ widgets.moms = 0)
                  => handed[k] = Norm(<< elspotprices[k], 2 >>)

(***************************************************************************)
(* The selection of lines 145-154 and 169 against a selector that stops    *)
(* as soon as the budget is used up, and the frame of the apply loop.      *)
(***************************************************************************)
\* The selector that stops early: go through the pairs in ascending order of
\* value, accept a pair that shares no hour with an accepted one, stop once
\* n pairs are accepted or the pairs are exhausted.  The result is the set
\* of the lists it can end with, one for each order of equal values.
RECURSIVE SelectFrom(_, _, _, _, _)
SelectFrom(acts, vals, rest, uniq, n) ==
    LET free == {k \in rest : ~Overlaps(acts[k], uniq)}
        best == {k \in free : \A m \in free : vals[k] <= vals[m]}
    IN  IF Len(uniq) >= n \/ free = {} THEN {uniq}
        ELSE UNION {SelectFrom(acts, vals, free \ {k}, Append(uniq, acts[k]), n) : k \in best}

\* C18. The list of applied actions that run_optimization arrives at (the
\* complete list of non-overlapping actions, cut to its first
\* shiftable_hours entries) is the list of the selector that stops early:
\* on every day the two procedures can end with the same lists, and the
\* applied list is one of them.
C18_SelectorEquivalent ==
    Returned =>
        \A dd \in Days :
            LET acts == actions[dd]
                vals == values[dd]
                n == shiftable_hours.val
                stopped == SelectFrom(acts, vals, 1..Len(acts), << >>, n)
            IN  /\ {Take(u, n) : u \in UniqueSorted(acts, vals)} = stopped
                /\ applied[dd] \in stopped

\* a day whose complete list is longer than the budget, so that the cut of
\* line 169 dropped an accepted action
C18_Witness ==
    /\ Returned
    /\ \E dd \in Days :
          /\ shiftable_hours.val >= 1
          /\ Len(unique_sorted_actions[dd]) > shiftable_hours.val
          /\ Len(applied[dd]) = shiftable_hours.val

\* C19. Frame: after the run, an hour that belongs to no applied action has
\* mem_cost equal to base_cost and mem_power equal to the baseline power,
\* and in every cell base_cost is the price times the baseline power, the
\* baseline of an unspecified cell being the default power.
C19_Frame ==
    Returned =>
        \A dd \in Days : \A h \in Hours :
            /\ h \notin Touched(dd) =>
                  /\ mem_cost[dd][h] = base_cost[dd][h]
                  /\ mem_power[dd][h] = Baseline(dd, h)
            /\ base_cost[dd][h] = spot_price[dd][h] * Baseline(dd, h)
            /\ mask[dd][h] => Baseline(dd, h) = hourly_base_power * Unit

\* a day with an applied action, an hour outside it and an unspecified hour
C19_Witness ==
    /\ Returned
    /\ \E dd \in Days : \E h \in Hours : \E m \in Hours :
          /\ applied[dd] # << >>
          /\ h \notin Touched(dd)
          /\ spot_price[dd][h] # 0
          /\ mask[dd][m]

ValueOf(dd, p) == values[dd][CHOOSE k \in 1..Len(actions[dd]) : actions[dd][k] = p]

\* the summed values of the first n applied actions of day dd
RECURSIVE AppliedValue(_, _)
AppliedValue(dd, n) ==
    IF n = 0 THEN 0 ELSE ValueOf(dd, applied[dd][n]) + AppliedValue(dd, n - 1)

\* C22. In every returned result mem_cost[d, h] is spot_price[d, h] times
\* mem_power[d, h] in every cell, and the cost change of a day (summed
\* mem_cost less summed base_cost) is the sum of the values of the actions
\* applied on that day.
C22_CostPowerConsistent ==
    Returned =>
        \A dd \in Days :
            /\ \A h \in Hours : mem_cost[dd][h] = spot_price[dd][h] * mem_power[dd][h]
            /\ SumRow(mem_cost[dd], hours) - SumRow(base_cost[dd], hours)
                  = AppliedValue(dd, Len(applied[dd]))

\* a day with two applied actions whose cost has changed
C22_Witness ==
    /\ Returned
    /\ \E dd \in Days :
          /\ Len(applied[dd]) >= 2
          /\ SumRow(mem_cost[dd], hours) < SumRow(base_cost[dd], hours)
          /\ spot_price[dd][applied[dd][1][1]] # spot_price[dd][applied[dd][1][2]]

\* s is a prefix of t
IsPrefix(s, t) == Len(s) <= Len(t) /\ \A k \in 1..Len(s) : s[k] = t[k]

\* C23. For the same prices, powers and fractions, the actions applied with
\* shiftable_hours = k are, on every day, a prefix of the actions applied
\* with shiftable_hours = k + 1 (k >= 0), and the summed mem_cost with budget
\* k + 1 is less than or equal to the summed mem_cost with budget k.
C23_BudgetMonotone ==
    (first.kind = "larger_budget" /\ Returned) =>
        /\ shiftable_hours.val = first.shiftable_hours.val + 1
        /\ \A dd \in Days : IsPrefix(first.applied[dd], applied[dd])
        /\ SumAll(mem_cost) <= SumAll(first.mem_cost)

\* the larger budget applied one more action on some day, after at least
\* one with the smaller budget, and the summed cost went down
C23_Witness ==
    /\ first.kind = "larger_budget"
    /\ Returned
    /\ \E dd \in Days :
          /\ first.applied[dd] # << >>
          /\ Len(applied[dd]) = Len(first.applied[dd]) + 1
    /\ SumAll(mem_cost) < SumAll(first.mem_cost)

====
